---- MODULE Spec2Model ----
(***************************************************************************)
(* A model of the core of aoscdk-rs: src/disks.rs (partition catalogue,    *)
(* filesystem recommendation, fstab entries) and src/network.rs (variant   *)
(* resolution, mirror speed test), and src/main.rs (the instance lock).     *)
(*                                                                         *)
(* Option<T> is modelled as a sequence: None is <<>>, Some(x) is <<x>>.    *)
(* Strings that are only compared for equality are TLA+ strings; strings   *)
(* that are ordered (dates, variant names) are sequences of byte values.   *)
(***************************************************************************)
EXTENDS Integers, Sequences, FiniteSets, TLC

VARIABLES
    part,           \* disks.rs: the Partition value the caller holds
    call,           \* disks.rs: the last call made on it and what it returned
    devices,        \* disks.rs: what libparted reports (devices and their slots)
    lp,             \* disks.rs: list_partitions' position and result
    build,          \* network.rs: the build's ARCH and IS_RETRO
    recipe,         \* network.rs: the variants of the Recipe
    fv,             \* network.rs: find_variant_candidates' position and result
    mirrors,        \* network.rs: the Vec<Mirror> given to speedtest_mirrors
    probes,         \* network.rs: the get_mirror_speed_score futures, by index
    st,             \* network.rs: speedtest_mirrors' position and result
    lockfile,       \* main.rs: the file at LOCK, if there is one
    inst            \* main.rs: each installer process's position and locals

fsVars == <<part, call>>
partsVars == <<devices, lp>>
variantVars == <<build, recipe, fv>>
speedVars == <<mirrors, probes, st>>
lockVars == <<lockfile, inst>>

vars == <<fsVars, partsVars, variantVars, speedVars, lockVars>>

None == <<>>
Some(x) == <<x>>
IsSome(o) == Len(o) = 1
Unwrap(o) == o[1]

\* ------------------------------------------------------------------------
\* disks.rs: filesystem recommendation, fill_fs_type, fstab_entries
\* ------------------------------------------------------------------------

ALLOWED_FS_TYPE == <<"ext4", "xfs", "btrfs", "f2fs">>

DEFAULT_FS_TYPE == "ext4"

\* The for loop of get_recommended_fs_type over ALLOWED_FS_TYPE[k..last].
RECURSIVE RecommendFrom(_, _, _)
RecommendFrom(k, last, type_) ==
    IF k > last THEN DEFAULT_FS_TYPE
    ELSE IF ALLOWED_FS_TYPE[k] = type_ THEN ALLOWED_FS_TYPE[k]
    ELSE RecommendFrom(k + 1, last, type_)

\* A plausible slip: the loop stops one entry short of the end of the list.
get_recommended_fs_type_short(type_) ==
    RecommendFrom(1, Len(ALLOWED_FS_TYPE) - 1, type_)

get_recommended_fs_type(type_) == RecommendFrom(1, Len(ALLOWED_FS_TYPE), type_)

\* A plausible slip: the use_ext4 flag is ignored when a type is present.
fill_fs_type_ignores_flag(p, use_ext4) ==
    [p EXCEPT !.fs_type =
        IF IsSome(p.fs_type) THEN Some(get_recommended_fs_type(Unwrap(p.fs_type)))
        ELSE Some(DEFAULT_FS_TYPE)]

fill_fs_type(p, use_ext4) ==
    LET new_part == p
        new_fs_type ==
            IF IsSome(new_part.fs_type)
            THEN IF ~use_ext4
                 THEN get_recommended_fs_type(Unwrap(new_part.fs_type))
                 ELSE DEFAULT_FS_TYPE
            ELSE DEFAULT_FS_TYPE
    IN  [new_part EXCEPT !.fs_type = Some(new_fs_type)]

\* A plausible slip: the fall-through arm takes an unknown tag for ext4.
FsTypeMatch_fallback(t) ==
    CASE t = "fat32" -> Some([fs |-> "Fat32", option |-> "defaults"])
      [] t = "btrfs" -> Some([fs |-> "Btrfs", option |-> "defaults"])
      [] t = "xfs"   -> Some([fs |-> "Xfs",   option |-> "defaults"])
      [] t = "f2fs"  -> Some([fs |-> "F2fs",  option |-> "defaults"])
      [] t = "swap"  -> Some([fs |-> "Swap",  option |-> "sw"])
      [] OTHER       -> Some([fs |-> "Ext4",  option |-> "defaults"])

\* The match of fstab_entries: the canonical filesystem and its mount options,
\* or None for the fall-through arm.
FsTypeMatch(t) ==
    CASE t = "fat32" -> Some([fs |-> "Fat32", option |-> "defaults"])
      [] t = "ext4"  -> Some([fs |-> "Ext4",  option |-> "defaults"])
      [] t = "btrfs" -> Some([fs |-> "Btrfs", option |-> "defaults"])
      [] t = "xfs"   -> Some([fs |-> "Xfs",   option |-> "defaults"])
      [] t = "f2fs"  -> Some([fs |-> "F2fs",  option |-> "defaults"])
      [] t = "swap"  -> Some([fs |-> "Swap",  option |-> "sw"])
      [] OTHER       -> None

\* fstab_entries(partition, mount_path). id_lookup is what
\* BlockInfo::get_partition_id answers if it is asked. The result records how
\* the call ended, whether the identifier lookup was made, and the entry.
fstab_entries(partition, mount_path, id_lookup) ==
    IF ~IsSome(partition.path)
    THEN [outcome |-> "panic", looked_up |-> FALSE, entry |-> None]
    ELSE IF ~IsSome(partition.fs_type)
    THEN [outcome |-> "Could get partition Object!", looked_up |-> FALSE,
          entry |-> None]
    ELSE LET m == FsTypeMatch(Unwrap(partition.fs_type)) IN
         IF m = None
         THEN [outcome |-> "Unsupport fs type!", looked_up |-> FALSE,
               entry |-> None]
         ELSE IF ~IsSome(id_lookup)
         THEN [outcome |-> "Could not get partition uuid!", looked_up |-> TRUE,
               entry |-> None]
         ELSE [outcome |-> "Ok", looked_up |-> TRUE,
               entry |-> Some([id |-> Unwrap(id_lookup), fs |-> Unwrap(m).fs,
                               mount |-> mount_path,
                               option |-> Unwrap(m).option])]

\* The strings tried as filesystem tags.
FsNames == {"ext4", "xfs", "btrfs", "f2fs", "fat32", "swap", "ext2", "ntfs",
            "EXT4", ""}

FstabSupported == {"fat32", "ext4", "btrfs", "xfs", "f2fs", "swap"}

OptionOf(S) == {None} \cup {Some(x) : x \in S}

PartitionValues ==
    [path        : OptionOf({"/dev/sda1", "/dev/nvme0n1p2"}),
     parent_path : OptionOf({"/dev/sda"}),
     fs_type     : OptionOf(FsNames),
     size        : {0, 512}]

NoCall == [op |-> "none"]

IdleParts == devices = <<>> /\ lp = [pc |-> "idle"]

IdleVariants == build = None /\ recipe = <<>> /\ fv = [pc |-> "idle"]

IdleSpeed == mirrors = <<>> /\ probes = <<>> /\ st = [pc |-> "idle"]

IdleLock == lockfile = None /\ inst = <<>>

InitFs ==
    /\ IdleLock
    /\ part \in PartitionValues
    /\ call = NoCall
    /\ IdleParts
    /\ IdleVariants
    /\ IdleSpeed

CallGetRecommended ==
    \E s \in FsNames :
        /\ call' = [op |-> "get_recommended_fs_type", arg |-> s,
                    ret |-> get_recommended_fs_type(s)]
        /\ UNCHANGED <<lockVars, part, partsVars, variantVars, speedVars>>

CallFillFsType ==
    \E use_ext4 \in BOOLEAN :
        /\ call' = [op |-> "fill_fs_type", arg |-> part, use_ext4 |-> use_ext4,
                    ret |-> fill_fs_type(part, use_ext4)]
        /\ UNCHANGED <<lockVars, part, partsVars, variantVars, speedVars>>

CallFstabEntries ==
    \E mount_path \in {"/", "/efi"}, id_lookup \in OptionOf({"UUID=1f0c"}) :
        /\ call' = [op |-> "fstab_entries", arg |-> part,
                    ret |-> fstab_entries(part, mount_path, id_lookup)]
        /\ UNCHANGED <<lockVars, part, partsVars, variantVars, speedVars>>

NextFs == CallGetRecommended \/ CallFillFsType \/ CallFstabEntries

SpecFs == InitFs /\ [][NextFs]_vars

\* ------------------------------------------------------------------------
\* Properties of the filesystem functions (SpecFs)
\* ------------------------------------------------------------------------

AllowedSet == {"ext4", "xfs", "btrfs", "f2fs"}

\* C2: get_recommended_fs_type(s) = s exactly when s is one of ext4, xfs,
\* btrfs, f2fs; for every other s the result is "ext4"; the result is always
\* a member of the allowed set.
C2_RecommendedFsType ==
    call.op = "get_recommended_fs_type" =>
        /\ (call.ret = call.arg) <=> (call.arg \in AllowedSet)
        /\ call.arg \notin AllowedSet => call.ret = "ext4"
        /\ call.ret \in AllowedSet

C2_Witness ==
    /\ call.op = "get_recommended_fs_type"
    /\ call.arg = "ntfs"
    /\ call.ret = "ext4"

\* C3: fill_fs_type(p, true) yields fs_type "ext4" whatever p.fs_type was;
\* fill_fs_type(p, false) yields the recommended type of Some(t) and "ext4"
\* for None; p itself is not changed and the result differs from p in
\* fs_type only.
C3_FillFsType ==
    call.op = "fill_fs_type" =>
        LET p == call.arg
            r == call.ret
        IN  /\ call.use_ext4 => r.fs_type = Some("ext4")
            /\ (~call.use_ext4 /\ p.fs_type # None) =>
                   r.fs_type = Some(IF Unwrap(p.fs_type) \in AllowedSet
                                    THEN Unwrap(p.fs_type) ELSE "ext4")
            /\ (~call.use_ext4 /\ p.fs_type = None) => r.fs_type = Some("ext4")
            /\ part = p
            /\ r.path = p.path
            /\ r.parent_path = p.parent_path
            /\ r.size = p.size

C3_Witness ==
    /\ call.op = "fill_fs_type"
    /\ call.use_ext4
    /\ call.arg.fs_type = Some("btrfs")
    /\ call.ret.fs_type = Some("ext4")

\* C7 as claimed: for every partition whose fs_type names a tag outside
\* fat32, ext4, btrfs, xfs, f2fs, swap, fstab_entries fails with the
\* unsupported-type error, gives no entry and never looks the identifier up.
C7_AsClaimed ==
    (/\ call.op = "fstab_entries"
     /\ call.arg.fs_type # None
     /\ Unwrap(call.arg.fs_type) \notin FstabSupported) =>
        /\ call.ret.outcome = "Unsupport fs type!"
        /\ call.ret.entry = None
        /\ ~call.ret.looked_up

\* C7 amended: the same, for every partition whose path is set; and whether
\* or not the path is set, such a partition gets no entry and no lookup.
C7_UnsupportedFsType ==
    (/\ call.op = "fstab_entries"
     /\ call.arg.fs_type # None
     /\ Unwrap(call.arg.fs_type) \notin FstabSupported) =>
        /\ call.arg.path # None => call.ret.outcome = "Unsupport fs type!"
        /\ call.arg.path = None => call.ret.outcome = "panic"
        /\ call.ret.entry = None
        /\ ~call.ret.looked_up

C7_Witness ==
    /\ call.op = "fstab_entries"
    /\ call.arg.path # None
    /\ call.arg.fs_type = Some("ntfs")
    /\ call.ret.outcome = "Unsupport fs type!"

\* ------------------------------------------------------------------------
\* disks.rs: list_partitions
\* ------------------------------------------------------------------------

\* u64 and i64 are scaled down to WordBits bits: a u64 is 0 .. U64Modulus - 1
\* and an i64 is -(U64Modulus \div 2) .. I64Max.
WordBits == 5

U64Modulus == 2 ^ WordBits

I64Max == (U64Modulus \div 2) - 1

MaxDevices == 2

\* Slots of all partition tables together.
MaxSlots == 3

\* What libparted reports of one slot of a partition table: its number (-1 for
\* free space and metadata), its geometry length in sectors, the outcome of
\* probe_fs, and its device node.
SlotKinds ==
    { [num |-> -1, geom_length |-> 3,      probe_fs |-> None,          path |-> None],
      [num |-> 0,  geom_length |-> 2,      probe_fs |-> Some("ext4"),  path |-> Some("p0")],
      [num |-> 1,  geom_length |-> -1,     probe_fs |-> None,          path |-> Some("p1")],
      [num |-> 2,  geom_length |-> 3,      probe_fs |-> Some("ext4"),  path |-> Some("p2")],
      [num |-> 3,  geom_length |-> I64Max, probe_fs |-> Some("btrfs"), path |-> None] }

\* A device: its path, its sector size, whether Disk::new succeeds on it, and
\* its partition table.
DeviceKinds ==
    { [path |-> "/dev/sda", sector_size |-> 2, disk_ok |-> TRUE,  parts |-> <<>>],
      [path |-> "/dev/sdb", sector_size |-> 4, disk_ok |-> TRUE,  parts |-> <<>>],
      [path |-> "/dev/sr0", sector_size |-> 4, disk_ok |-> FALSE, parts |-> <<>>] }

\* sector_size * part_length on u64: with overflow checks (a debug build) an
\* overflowing product panics, without them (a release build) it wraps.
MulU64(a, b, overflow_checks) ==
    IF a * b >= U64Modulus
    THEN IF overflow_checks THEN [panic |-> TRUE, value |-> 0]
         ELSE [panic |-> FALSE, value |-> (a * b) % U64Modulus]
    ELSE [panic |-> FALSE, value |-> a * b]

\* A plausible slip: the filter lets the free-space slots through.
SlotSkipped_none(slot) == FALSE

\* if part.num() < 0 { continue; }
SlotSkipped(slot) == slot.num < 0

\* let part_length = if geom_length < 0 { 0 } else { geom_length as u64 };
PartLength(geom_length) == IF geom_length < 0 THEN 0 ELSE geom_length

\* The inner loop over disk.parts(), from slot k on, appending to acc.
RECURSIVE ScanParts(_, _, _, _)
ScanParts(dev, k, acc, overflow_checks) ==
    IF acc.panic \/ k > Len(dev.parts) THEN acc
    ELSE LET slot == dev.parts[k] IN
         IF SlotSkipped(slot)
         THEN ScanParts(dev, k + 1, acc, overflow_checks)
         ELSE LET size == MulU64(dev.sector_size, PartLength(slot.geom_length),
                                 overflow_checks)
              IN  IF size.panic
                  THEN [panic |-> TRUE, partitions |-> acc.partitions]
                  ELSE ScanParts(dev, k + 1,
                         [panic |-> FALSE,
                          partitions |-> Append(acc.partitions,
                              [path        |-> slot.path,
                               parent_path |-> Some(dev.path),
                               size        |-> size.value,
                               fs_type     |-> slot.probe_fs])],
                         overflow_checks)

\* The outer loop over Device::devices(true), from device d on.
RECURSIVE ScanDevices(_, _, _, _)
ScanDevices(devs, d, acc, overflow_checks) ==
    IF acc.panic \/ d > Len(devs) THEN acc
    ELSE IF devs[d].disk_ok
         THEN ScanDevices(devs, d + 1,
                          ScanParts(devs[d], 1, acc, overflow_checks),
                          overflow_checks)
         ELSE ScanDevices(devs, d + 1, acc, overflow_checks)

list_partitions(devs, overflow_checks) ==
    ScanDevices(devs, 1, [panic |-> FALSE, partitions |-> <<>>], overflow_checks)

RECURSIVE SlotCount(_, _)
SlotCount(devs, d) ==
    IF d > Len(devs) THEN 0 ELSE Len(devs[d].parts) + SlotCount(devs, d + 1)

IdleFs == part = None /\ call = NoCall

\* The build (with or without overflow checks) is fixed from the start; the
\* machine's devices are attached before the scan.
InitParts ==
    /\ IdleLock
    /\ devices = <<>>
    /\ lp \in {[pc |-> "setup", overflow_checks |-> b] : b \in BOOLEAN}
    /\ IdleFs
    /\ IdleVariants
    /\ IdleSpeed

AttachDevice ==
    /\ lp.pc = "setup"
    /\ Len(devices) < MaxDevices
    /\ \E dev \in DeviceKinds : devices' = Append(devices, dev)
    /\ UNCHANGED <<lockVars, fsVars, lp, variantVars, speedVars>>

AddSlot ==
    /\ lp.pc = "setup"
    /\ devices # <<>>
    /\ devices[Len(devices)].disk_ok
    /\ SlotCount(devices, 1) < MaxSlots
    /\ \E slot \in SlotKinds :
          devices' = [devices EXCEPT ![Len(devices)].parts = Append(@, slot)]
    /\ UNCHANGED <<lockVars, fsVars, lp, variantVars, speedVars>>

ListPartitions ==
    /\ lp.pc = "setup"
    /\ LET r == list_partitions(devices, lp.overflow_checks) IN
         lp' = IF r.panic
               THEN [pc |-> "panicked", overflow_checks |-> lp.overflow_checks]
               ELSE [pc |-> "listed", overflow_checks |-> lp.overflow_checks,
                     partitions |-> r.partitions]
    /\ UNCHANGED <<lockVars, fsVars, devices, variantVars, speedVars>>

NextParts == AttachDevice \/ AddSlot \/ ListPartitions

SpecParts == InitParts /\ [][NextParts]_vars

\* ------------------------------------------------------------------------
\* Properties of list_partitions (SpecParts)
\* ------------------------------------------------------------------------

\* The slots of the devices whose table opens, in device order then partition
\* order, each with its device.
RECURSIVE SlotsOf(_, _, _)
SlotsOf(devs, d, k) ==
    IF d > Len(devs) THEN <<>>
    ELSE IF ~devs[d].disk_ok \/ k > Len(devs[d].parts) THEN SlotsOf(devs, d + 1, 1)
    ELSE <<[dev |-> devs[d], slot |-> devs[d].parts[k]]>> \o SlotsOf(devs, d, k + 1)

AllSlots == SlotsOf(devices, 1, 1)

SlotsNumbered(P(_)) == SelectSeq(AllSlots, LAMBDA e : P(e.slot.num))

Max0(n) == IF n > 0 THEN n ELSE 0

\* C8 as claimed: list_partitions gives every partition the size
\* sector_size * max(geometry length, 0), for every sector size and length:
\* the product never wraps and never overflows.
C8_AsClaimed ==
    /\ lp.pc # "panicked"
    /\ lp.pc = "listed" =>
          LET kept == SlotsNumbered(LAMBDA n : n >= 0) IN
          /\ Len(lp.partitions) = Len(kept)
          /\ \A i \in 1 .. Len(kept) :
                lp.partitions[i].size =
                    kept[i].dev.sector_size * Max0(kept[i].slot.geom_length)

\* C9 as claimed: no slot with a non-positive number (zero or negative) gives
\* a Partition, and every slot with a positive number gives exactly one, in
\* device order then partition order, fs_type None when probing fails.
C9_AsClaimed ==
    lp.pc = "listed" =>
        LET kept == SlotsNumbered(LAMBDA n : n > 0) IN
        /\ Len(lp.partitions) = Len(kept)
        /\ \A i \in 1 .. Len(kept) :
              /\ lp.partitions[i].path = kept[i].slot.path
              /\ lp.partitions[i].parent_path = Some(kept[i].dev.path)
              /\ lp.partitions[i].fs_type = kept[i].slot.probe_fs

\* C9 amended: every result list_partitions returns holds no Partition for a
\* slot with a negative number and exactly one for every slot with a number
\* of zero or more, in device order then partition order, fs_type None when
\* probing fails.
C9_SkipsNegativeSlots ==
    lp.pc = "listed" =>
        LET kept == SlotsNumbered(LAMBDA n : n >= 0) IN
        /\ Len(lp.partitions) = Len(kept)
        /\ \A i \in 1 .. Len(kept) :
              /\ lp.partitions[i].path = kept[i].slot.path
              /\ lp.partitions[i].parent_path = Some(kept[i].dev.path)
              /\ lp.partitions[i].fs_type = kept[i].slot.probe_fs

\* A scan of a table that holds a free-space slot and a slot whose probe
\* fails: the first is skipped, the second listed with fs_type None.
C9_Witness ==
    /\ lp.pc = "listed"
    /\ Len(AllSlots) = 2
    /\ AllSlots[1].slot.num < 0
    /\ AllSlots[2].slot.num > 0
    /\ AllSlots[2].slot.probe_fs = None
    /\ Len(lp.partitions) = 1
    /\ lp.partitions[1].path = AllSlots[2].slot.path
    /\ lp.partitions[1].fs_type = None

\* ------------------------------------------------------------------------
\* network.rs: find_variant_candidates
\* ------------------------------------------------------------------------

\* Strings the code orders are sequences of bytes; String's Ord compares them
\* byte by byte, a proper prefix first.
RECURSIVE StrLess(_, _)
StrLess(a, b) ==
    IF b = <<>> THEN FALSE
    ELSE IF a = <<>> THEN TRUE
    ELSE IF a[1] < b[1] THEN TRUE
    ELSE IF a[1] > b[1] THEN FALSE
    ELSE StrLess(Tail(a), Tail(b))

\* "Base", "BuildKit", "Core"
NameBase == <<66, 97, 115, 101>>
NameBuildKit == <<66, 117, 105, 108, 100, 75, 105, 116>>
NameCore == <<67, 111, 114, 101>>

\* "2023-01-01", "2023-02-01", "2023-03-01"; and "2023-1-15", which is greater
\* than all of them byte by byte.
Date0101 == <<50, 48, 50, 51, 45, 48, 49, 45, 48, 49>>
Date0201 == <<50, 48, 50, 51, 45, 48, 50, 45, 48, 49>>
Date0301 == <<50, 48, 50, 51, 45, 48, 51, 45, 48, 49>>
Date115 == <<50, 48, 50, 51, 45, 49, 45, 49, 53>>

get_arch_name(ARCH) ==
    CASE ARCH = "x86_64"  -> Some("amd64")
      [] ARCH = "x86"     -> Some("i486")
      [] ARCH = "powerpc" -> Some("powerpc")
      [] ARCH = "aarch64" -> Some("arm64")
      [] ARCH = "mips64"  -> Some("loongson3")
      [] OTHER            -> None

\* x as u64, for an i64 x.
AsU64(x) == x % U64Modulus

\* A plausible slip: the reserved name is not filtered out.
VariantKept_any_name(x, IS_RETRO) ==
    x.retro = IS_RETRO /\ x.tarballs # <<>>

\* .filter(|x| x.retro == IS_RETRO && !x.tarballs.is_empty() && x.name != "BuildKit")
VariantKept(x, IS_RETRO) ==
    x.retro = IS_RETRO /\ x.tarballs # <<>> /\ x.name # NameBuildKit

\* A plausible slip: the comparison is the other way round (oldest first).
TarballBefore_oldest_first(a, b) == StrLess(a.date, b.date)

\* sort_by(|a, b| b.date.cmp(&a.date)): a sorts before b when b.date < a.date.
TarballBefore(a, b) == StrLess(b.date, a.date)

\* sort_by is a stable sort: the elements are inserted one by one, each before
\* the first one it sorts strictly before.
RECURSIVE InsertTarball(_, _)
InsertTarball(sorted, x) ==
    IF sorted = <<>> THEN <<x>>
    ELSE IF TarballBefore(x, Head(sorted)) THEN <<x>> \o sorted
    ELSE <<Head(sorted)>> \o InsertTarball(Tail(sorted), x)

RECURSIVE SortTarballs(_, _)
SortTarballs(ts, n) ==
    IF n = 0 THEN <<>> ELSE InsertTarball(SortTarballs(ts, n - 1), ts[n])

RECURSIVE InsertEntry(_, _)
InsertEntry(sorted, x) ==
    IF sorted = <<>> THEN <<x>>
    ELSE IF StrLess(x.name, Head(sorted).name) THEN <<x>> \o sorted
    ELSE <<Head(sorted)>> \o InsertEntry(Tail(sorted), x)

\* results.sort_by(|a, b| a.name.cmp(&b.name))
RECURSIVE SortEntries(_, _)
SortEntries(es, n) ==
    IF n = 0 THEN <<>> ELSE InsertEntry(SortEntries(es, n - 1), es[n])

VariantEntryOf(variant, candidate) ==
    [name         |-> variant.name,
     size         |-> AsU64(candidate.download_size),
     install_size |-> AsU64(candidate.inst_size),
     date         |-> candidate.date,
     url          |-> candidate.path,
     sha256sum    |-> candidate.sha256sum]

\* The body of the for loop, from variant k on.
RECURSIVE CollectVariants(_, _, _, _, _)
CollectVariants(variants, k, results, arch_name, IS_RETRO) ==
    IF k > Len(variants) THEN results
    ELSE IF ~VariantKept(variants[k], IS_RETRO)
    THEN CollectVariants(variants, k + 1, results, arch_name, IS_RETRO)
    ELSE LET matching == SelectSeq(variants[k].tarballs,
                                   LAMBDA x : x.arch = arch_name)
             sorted_tarballs == SortTarballs(matching, Len(matching))
         IN  IF sorted_tarballs = <<>>
             THEN CollectVariants(variants, k + 1, results, arch_name, IS_RETRO)
             ELSE CollectVariants(variants, k + 1,
                      Append(results,
                             VariantEntryOf(variants[k], Head(sorted_tarballs))),
                      arch_name, IS_RETRO)

find_variant_candidates(variants, ARCH, IS_RETRO) ==
    LET arch_name == get_arch_name(ARCH) IN
    IF arch_name = None
    THEN [ok |-> FALSE, results |-> <<>>]
    ELSE LET results == CollectVariants(variants, 1, <<>>, Unwrap(arch_name),
                                        IS_RETRO)
         IN  [ok |-> TRUE, results |-> SortEntries(results, Len(results))]

MaxVariants == 2

\* Tarballs of all variants together.
MaxTarballs == 3

Builds ==
    { [ARCH |-> "x86_64",  IS_RETRO |-> FALSE],
      [ARCH |-> "x86_64",  IS_RETRO |-> TRUE],
      [ARCH |-> "aarch64", IS_RETRO |-> FALSE],
      [ARCH |-> "riscv64", IS_RETRO |-> FALSE] }

\* The description fields of a Variant are not read by the function.
VariantKinds ==
    { [name |-> NameCore,     retro |-> FALSE, tarballs |-> <<>>],
      [name |-> NameBase,     retro |-> FALSE, tarballs |-> <<>>],
      [name |-> NameBuildKit, retro |-> FALSE, tarballs |-> <<>>],
      [name |-> NameCore,     retro |-> TRUE,  tarballs |-> <<>>] }

TarballKinds ==
    { [arch |-> "amd64", date |-> Date0101, download_size |-> 5, inst_size |-> 9,
       path |-> "amd64/0101.tar.xz", sha256sum |-> "a1"],
      [arch |-> "amd64", date |-> Date0201, download_size |-> 6, inst_size |-> 10,
       path |-> "amd64/0201.tar.xz", sha256sum |-> "b2"],
      [arch |-> "amd64", date |-> Date115, download_size |-> 4, inst_size |-> 8,
       path |-> "amd64/115.tar.xz", sha256sum |-> "d4"],
      [arch |-> "arm64", date |-> Date0301, download_size |-> -1, inst_size |-> 7,
       path |-> "arm64/0301.tar.xz", sha256sum |-> "c3"] }

RECURSIVE TarballCount(_, _)
TarballCount(variants, k) ==
    IF k > Len(variants) THEN 0
    ELSE Len(variants[k].tarballs) + TarballCount(variants, k + 1)

\* The build is fixed from the start; the manifest is what the server sends.
InitVariants ==
    /\ IdleLock
    /\ build \in {Some(b) : b \in Builds}
    /\ recipe = <<>>
    /\ fv = [pc |-> "fetching"]
    /\ IdleFs
    /\ IdleParts
    /\ IdleSpeed

AddVariant ==
    /\ fv.pc = "fetching"
    /\ Len(recipe) < MaxVariants
    /\ \E v \in VariantKinds : recipe' = Append(recipe, v)
    /\ UNCHANGED <<lockVars, fsVars, partsVars, build, fv, speedVars>>

AddTarball ==
    /\ fv.pc = "fetching"
    /\ recipe # <<>>
    /\ TarballCount(recipe, 1) < MaxTarballs
    /\ \E t \in TarballKinds :
          recipe' = [recipe EXCEPT ![Len(recipe)].tarballs = Append(@, t)]
    /\ UNCHANGED <<lockVars, fsVars, partsVars, build, fv, speedVars>>

FindVariantCandidates ==
    /\ fv.pc = "fetching"
    /\ LET r == find_variant_candidates(recipe, Unwrap(build).ARCH,
                                        Unwrap(build).IS_RETRO)
       IN  fv' = [pc |-> "done", ok |-> r.ok, results |-> r.results]
    /\ UNCHANGED <<lockVars, fsVars, partsVars, build, recipe, speedVars>>

NextVariants == AddVariant \/ AddTarball \/ FindVariantCandidates

SpecVariants == InitVariants /\ [][NextVariants]_vars

\* ------------------------------------------------------------------------
\* Properties of find_variant_candidates (SpecVariants)
\* ------------------------------------------------------------------------

HostTag == Unwrap(get_arch_name(Unwrap(build).ARCH))

Resolved == fv.pc = "done" /\ fv.ok

\* Tarball t of variant v is one of v's newest for the host: it carries the
\* host's tag and no tarball of v with that tag has a date greater than its.
NewestForHost(v, t) ==
    /\ t.arch = HostTag
    /\ \A j \in 1 .. Len(v.tarballs) :
          v.tarballs[j].arch = HostTag => ~StrLess(t.date, v.tarballs[j].date)

\* C4: on a supported architecture every entry returned is the projection of
\* a tarball of its variant that carries the host's tag and has the greatest
\* date among that variant's tarballs with that tag, and the entries are in
\* ascending order of name.
C4_NewestTarballSortedByName ==
    Resolved =>
        /\ \A i \in 1 .. Len(fv.results) :
              \E k \in 1 .. Len(recipe) :
                \E j \in 1 .. Len(recipe[k].tarballs) :
                  LET v == recipe[k]
                      t == v.tarballs[j]
                      e == fv.results[i]
                  IN  /\ NewestForHost(v, t)
                      /\ e.name = v.name
                      /\ e.date = t.date
                      /\ e.url = t.path
                      /\ e.sha256sum = t.sha256sum
                      /\ e.size = t.download_size % U64Modulus
                      /\ e.install_size = t.inst_size % U64Modulus
        /\ \A i \in 1 .. Len(fv.results) - 1 :
              ~StrLess(fv.results[i + 1].name, fv.results[i].name)

\* Two amd64 tarballs dated 2023-01-01 and 2023-02-01 give one entry dated
\* 2023-02-01.
C4_Witness ==
    /\ Resolved
    /\ Len(recipe) = 1
    /\ Len(recipe[1].tarballs) = 2
    /\ recipe[1].tarballs[1].date = Date0101
    /\ recipe[1].tarballs[2].date = Date0201
    /\ Len(fv.results) = 1
    /\ fv.results[1].date = Date0201

CountWhere(seq, P(_)) == Len(SelectSeq(seq, P))

HasHostTarball(v) == \E j \in 1 .. Len(v.tarballs) : v.tarballs[j].arch = HostTag

\* C5 as claimed: the entries returned have pairwise different names, for
\* every recipe, and a variant with no tarball for the host gives no entry.
C5_AsClaimed ==
    Resolved =>
        /\ \A i, j \in 1 .. Len(fv.results) :
              i # j => fv.results[i].name # fv.results[j].name
        /\ \A k \in 1 .. Len(recipe) :
              LET n == recipe[k].name IN
              CountWhere(fv.results, LAMBDA e : e.name = n)
                  <= CountWhere(recipe, LAMBDA v : v.name = n /\ HasHostTarball(v))

\* C6: a variant with no tarballs, or named BuildKit, gives no entry: no
\* entry is named BuildKit, and the entries of any name are no more than the
\* variants of that name that have tarballs.
C6_EmptyAndReservedExcluded ==
    Resolved =>
        /\ \A i \in 1 .. Len(fv.results) : fv.results[i].name # NameBuildKit
        /\ \A k \in 1 .. Len(recipe) :
              LET n == recipe[k].name IN
              CountWhere(fv.results, LAMBDA e : e.name = n)
                  <= CountWhere(recipe, LAMBDA v : v.name = n /\ v.tarballs # <<>>)

\* A BuildKit variant of the build's kind with a tarball for the host, next to
\* a variant with no tarballs: nothing is returned.
C6_Witness ==
    /\ Resolved
    /\ Len(recipe) = 2
    /\ recipe[1].name = NameBuildKit
    /\ recipe[1].retro = Unwrap(build).IS_RETRO
    /\ HasHostTarball(recipe[1])
    /\ recipe[2].tarballs = <<>>
    /\ fv.results = <<>>

\* ------------------------------------------------------------------------
\* network.rs: speedtest_mirrors and get_mirror_speed_score
\* ------------------------------------------------------------------------

MaxMirrors == 3

\* Scores (seconds elapsed) are 1 .. MaxScore; two probes may measure the same.
MaxScore == 2

MirrorKinds ==
    { [name |-> "A", name_tr |-> "a", loc |-> "China", loc_tr |-> "cn",
       url |-> "https://a.example/aosc/"],
      [name |-> "B", name_tr |-> "b", loc |-> "China", loc_tr |-> "cn",
       url |-> "https://b.example/aosc/"],
      [name |-> "C", name_tr |-> "c", loc |-> "Japan", loc_tr |-> "jp",
       url |-> "https://c.example/aosc/"],
      [name |-> "D", name_tr |-> "d", loc |-> "Germany", loc_tr |-> "de",
       url |-> "no url"] }

\* Url::parse(mirror_url)?.join(..)? succeeds.
UrlParses(url) == url # "no url"

SeqsUpTo(S, n) == UNION {[1 .. k -> S] : k \in 0 .. n}

Finished(p) == p.state \in {"ok", "err"}

\* for (index, result) in results.into_iter().enumerate(): the (loc_tr, score)
\* pairs of the Ok results, from index on.
RECURSIVE Accumulate(_, _, _)
Accumulate(ms, results, index) ==
    IF index > Len(results) THEN <<>>
    ELSE IF results[index].state = "ok"
    THEN <<[name |-> ms[index].loc_tr, score |-> results[index].score]>>
             \o Accumulate(ms, results, index + 1)
    ELSE Accumulate(ms, results, index + 1)

RECURSIVE InsertScore(_, _)
InsertScore(sorted, x) ==
    IF sorted = <<>> THEN <<x>>
    ELSE IF x.score < Head(sorted).score THEN <<x>> \o sorted
    ELSE <<Head(sorted)>> \o InsertScore(Tail(sorted), x)

\* speedtest_mirror.sort_by(|(_, a), (_, b)| a.partial_cmp(b).unwrap()), a
\* stable sort; elapsed seconds are never NaN.
RECURSIVE SortByScore(_, _)
SortByScore(pairs, n) ==
    IF n = 0 THEN <<>> ELSE InsertScore(SortByScore(pairs, n - 1), pairs[n])

\* mirrors.iter().position(|x| x.loc_tr == name).unwrap()
Position(ms, name) ==
    CHOOSE i \in 1 .. Len(ms) :
        /\ ms[i].loc_tr = name
        /\ \A j \in 1 .. i - 1 : ms[j].loc_tr # name

\* The block after join_all: accumulate, sort, match back to the records.
CollectMirrors(ms, results) ==
    LET acc == Accumulate(ms, results, 1)
        speedtest_mirror == SortByScore(acc, Len(acc))
    IN  [k \in 1 .. Len(speedtest_mirror) |->
            ms[Position(ms, speedtest_mirror[k].name)]]

InitSpeed ==
    /\ IdleLock
    /\ mirrors \in SeqsUpTo(MirrorKinds, MaxMirrors)
    /\ probes = <<>>
    /\ st = [pc |-> "called", new_mirrors |-> <<>>]
    /\ IdleFs
    /\ IdleParts
    /\ IdleVariants

\* for mirror in &mirrors { task.push(get_mirror_speed_score(..)) }
CreateTasks ==
    /\ st.pc = "called"
    /\ probes' = [i \in 1 .. Len(mirrors) |-> [state |-> "created"]]
    /\ st' = [st EXCEPT !.pc = "joining"]
    /\ UNCHANGED <<lockVars, fsVars, partsVars, variantVars, mirrors>>

\* The first poll of future i: the URL is built and the request sent, or the
\* URL does not parse and the future is done with an error.
StartProbe(i) ==
    /\ st.pc = "joining"
    /\ probes[i].state = "created"
    /\ probes' = [probes EXCEPT ![i] =
                     IF UrlParses(mirrors[i].url) THEN [state |-> "sending"]
                     ELSE [state |-> "err"]]
    /\ UNCHANGED <<lockVars, fsVars, partsVars, variantVars, mirrors, st>>

\* The request of future i ends: a transport error or the 10 s timeout, a body
\* with the wrong checksum, or the right body after score seconds.
FinishProbe(i) ==
    /\ st.pc = "joining"
    /\ probes[i].state = "sending"
    /\ \/ probes' = [probes EXCEPT ![i] = [state |-> "err"]]
       \/ \E score \in 1 .. MaxScore :
             probes' = [probes EXCEPT ![i] = [state |-> "ok", score |-> score]]
    /\ UNCHANGED <<lockVars, fsVars, partsVars, variantVars, mirrors, st>>

\* join_all is ready once every future is; the rest of the block runs at once.
JoinAndCollect ==
    /\ st.pc = "joining"
    /\ \A i \in 1 .. Len(probes) : Finished(probes[i])
    /\ st' = [pc |-> "returned", new_mirrors |-> CollectMirrors(mirrors, probes)]
    /\ UNCHANGED <<lockVars, fsVars, partsVars, variantVars, mirrors, probes>>

NextSpeed ==
    \/ CreateTasks
    \/ \E i \in 1 .. Len(probes) : StartProbe(i)
    \/ \E i \in 1 .. Len(probes) : FinishProbe(i)
    \/ JoinAndCollect

SpecSpeed == InitSpeed /\ [][NextSpeed]_vars

\* Every probe that is sent ends (at the latest by its timeout), and the
\* runtime keeps polling the join.
SpecSpeedFair == SpecSpeed /\ WF_vars(NextSpeed)

\* ------------------------------------------------------------------------
\* Properties of speedtest_mirrors (SpecSpeed)
\* ------------------------------------------------------------------------

Passed == {i \in 1 .. Len(probes) : probes[i].state = "ok"}

Returned == st.pc = "returned"

\* The orders in which the mirrors that passed can be listed by ascending
\* score.
AscendingOrders ==
    {f \in [1 .. Cardinality(Passed) -> Passed] :
        /\ \A a, b \in DOMAIN f : a # b => f[a] # f[b]
        /\ \A a, b \in DOMAIN f : a < b => probes[f[a]].score <= probes[f[b]].score}

\* C1 as claimed: for every input list, also one where two mirrors share a
\* loc_tr, the M mirrors that passed are returned, each once, in ascending
\* order of score.
C1_AsClaimed ==
    Returned =>
        /\ Len(st.new_mirrors) = Cardinality(Passed)
        /\ \E f \in AscendingOrders :
              \A k \in DOMAIN f : st.new_mirrors[k] = mirrors[f[k]]

\* One future per mirror, and nothing is accumulated or returned before every
\* future has finished.
FanOutFanIn ==
    /\ st.pc # "called" => Len(probes) = Len(mirrors)
    /\ ~Returned => st.new_mirrors = <<>>
    /\ Returned => \A i \in 1 .. Len(probes) : Finished(probes[i])

\* C10 as claimed: one probe per mirror, the result is produced only after
\* every probe has finished, and a probe that fails takes only its own mirror
\* out of the result: every record is returned as often as it passed.
C10_AsClaimed ==
    /\ FanOutFanIn
    /\ Returned =>
          \A m \in MirrorKinds :
              CountWhere(st.new_mirrors, LAMBDA x : x = m)
                  = Cardinality({i \in Passed : mirrors[i] = m})

\* The call returns once its probes have finished.
EventuallyReturns == <>Returned

\* ------------------------------------------------------------------------
\* main.rs: the instance lock (create_lock, execute, remove_lock)
\* ------------------------------------------------------------------------

\* Installer processes started; their pids are 1 .. MaxInstances.
MaxInstances == 2

Pids == 1 .. MaxInstances

\* The pid a lock file left by an earlier run names; no such process runs.
StalePid == MaxInstances + 1

\* pid.to_string(): the decimal digits, as bytes.
RECURSIVE PidToString(_)
PidToString(n) ==
    IF n < 10 THEN <<48 + n>> ELSE PidToString(n \div 10) \o <<48 + (n % 10)>>

IsDigit(c) == c >= 48 /\ c <= 57

RECURSIVE DigitsValue(_, _)
DigitsValue(s, acc) ==
    IF s = <<>> THEN acc ELSE DigitsValue(Tail(s), 10 * acc + (Head(s) - 48))

\* buf.parse::<i32>(): an optional sign and at least one digit, nothing else.
ParseI32(s) ==
    LET signed == s # <<>> /\ Head(s) \in {43, 45}
        digits == IF signed THEN Tail(s) ELSE s
    IN  IF digits = <<>> \/ \E k \in 1 .. Len(digits) : ~IsDigit(digits[k])
        THEN None
        ELSE Some(IF signed /\ Head(s) = 45 THEN 0 - DigitsValue(digits, 0)
                  ELSE DigitsValue(digits, 0))

\* write_all at offset 0 of a file that holds old.
Overwrite(old, new) == new \o SubSeq(old, Len(new) + 1, Len(old))

\* A process is in the process table from its start to its exit.
Running(p) == inst[p].pc \notin {"idle", "exited", "failed"}

\* s.process(Pid::from(old_pid)).is_some()
ProcessExists(old_pid) == old_pid \in Pids /\ Running(old_pid)

\* Before the first installer starts the lock file is absent, left over by a
\* run that did not remove it, or holds something that is no pid.
InitLock ==
    /\ lockfile \in {None,
                     Some([ino |-> 0, data |-> PidToString(StalePid)]),
                     Some([ino |-> 0, data |-> <<120>>])}
    /\ inst = [p \in Pids |-> [pc |-> "idle", old_pid |-> 0, fd |-> 0]]
    /\ IdleFs
    /\ IdleParts
    /\ IdleVariants
    /\ IdleSpeed

Goto(p, label) == inst' = [inst EXCEPT ![p].pc = label]

OtherVarsUnchanged == UNCHANGED <<fsVars, partsVars, variantVars, speedVars>>

\* The process is started and enters main.
Start(p) ==
    /\ inst[p].pc = "idle"
    /\ Goto(p, "is_file")
    /\ UNCHANGED lockfile
    /\ OtherVarsUnchanged

\* if lock.is_file()
IsFile(p) ==
    /\ inst[p].pc = "is_file"
    /\ Goto(p, IF lockfile # None THEN "read" ELSE "create")
    /\ UNCHANGED lockfile
    /\ OtherVarsUnchanged

\* File::open(lock)?, read_to_string, parse: any error leaves main by exit(1).
ReadLock(p) ==
    /\ inst[p].pc = "read"
    /\ IF lockfile = None \/ ParseI32(Unwrap(lockfile).data) = None
       THEN Goto(p, "failed")
       ELSE inst' = [inst EXCEPT ![p].pc = "check",
                                 ![p].old_pid = Unwrap(ParseI32(Unwrap(lockfile).data))]
    /\ UNCHANGED lockfile
    /\ OtherVarsUnchanged

\* System::new_all() and the look-up of old_pid.
CheckOldPid(p) ==
    /\ inst[p].pc = "check"
    /\ Goto(p, IF ProcessExists(inst[p].old_pid) THEN "failed" ELSE "remove_stale")
    /\ UNCHANGED lockfile
    /\ OtherVarsUnchanged

\* remove_lock()? of a stale lock: an error if the file is gone by now.
RemoveStale(p) ==
    /\ inst[p].pc = "remove_stale"
    /\ IF lockfile = None
       THEN Goto(p, "failed") /\ UNCHANGED lockfile
       ELSE Goto(p, "create") /\ lockfile' = None
    /\ OtherVarsUnchanged

\* File::create(lock)?: a new empty file, or the existing one truncated.
CreateFile(p) ==
    /\ inst[p].pc = "create"
    /\ LET ino == IF lockfile = None THEN p ELSE Unwrap(lockfile).ino IN
       /\ lockfile' = Some([ino |-> ino, data |-> <<>>])
       /\ inst' = [inst EXCEPT ![p].pc = "write", ![p].fd = ino]
    /\ OtherVarsUnchanged

\* lock_file.write_all(pid): into the file the handle is of, which may no
\* longer be the one at LOCK. create_lock returns Ok and execute begins.
WritePid(p) ==
    /\ inst[p].pc = "write"
    /\ lockfile' =
          IF lockfile # None /\ Unwrap(lockfile).ino = inst[p].fd
          THEN Some([ino |-> inst[p].fd,
                     data |-> Overwrite(Unwrap(lockfile).data, PidToString(p))])
          ELSE lockfile
    /\ Goto(p, "execute")
    /\ OtherVarsUnchanged

\* execute() returns, Ok or Err.
ExecuteReturns(p) ==
    /\ inst[p].pc = "execute"
    /\ Goto(p, "remove_lock")
    /\ UNCHANGED lockfile
    /\ OtherVarsUnchanged

\* remove_lock().ok() and exit: the file at LOCK is removed if there is one.
RemoveLockAndExit(p) ==
    /\ inst[p].pc = "remove_lock"
    /\ lockfile' = None
    /\ Goto(p, "exited")
    /\ OtherVarsUnchanged

NextLock ==
    \E p \in Pids :
        \/ Start(p)
        \/ IsFile(p)
        \/ ReadLock(p)
        \/ CheckOldPid(p)
        \/ RemoveStale(p)
        \/ CreateFile(p)
        \/ WritePid(p)
        \/ ExecuteReturns(p)
        \/ RemoveLockAndExit(p)

SpecLock == InitLock /\ [][NextLock]_vars

\* ------------------------------------------------------------------------
\* Properties of the instance lock (SpecLock)
\* ------------------------------------------------------------------------

\* Past a successful create_lock and not yet exited.
HoldsLock(p) == inst[p].pc \in {"execute", "remove_lock"}

\* At most one process holds the lock.
LockMutex == \A p, q \in Pids : HoldsLock(p) /\ HoldsLock(q) => p = q

\* While a process runs execute the lock file exists and names its pid.
LockNamesHolder ==
    \A p \in Pids :
        inst[p].pc = "execute" =>
            lockfile # None /\ ParseI32(Unwrap(lockfile).data) = Some(p)

\* C11 as claimed: under any interleaving of installer processes at most one
\* is past a successful create_lock and not yet exited, and while a process
\* runs execute the lock file exists and names that process's pid.
C11_AsClaimed == LockMutex /\ LockNamesHolder

====
